---- MODULE Spec2Model ----
(***************************************************************************)
(* Figma live design viewer (src/src/App.js): the node-tree layout engine  *)
(* (collectNodesWithBBox, the envelope useMemo, FigmaNode) and the App     *)
(* component state around it.                                              *)
(*                                                                         *)
(* JavaScript values are modelled as follows.                              *)
(*  - An object is a record; a property the object does not have is a     *)
(*    field the record does not have (tested with Has).                    *)
(*  - A number is an exact fraction [n |-> numerator, d |-> denominator], *)
(*    in lowest terms with d > 0.  NaN is 0/0, Infinity is 1/0 and         *)
(*    -Infinity is -1/0.  Floating-point rounding is not modelled.         *)
(*  - The value undefined, where a number is expected, is the record       *)
(*    undefined.                                                           *)
(*  - An array is a sequence; array index 0 is sequence index 1.           *)
(***************************************************************************)
EXTENDS Integers, Sequences, FiniteSets, TLC

(***************************************************************************)
(* Numbers                                                                 *)
(***************************************************************************)
undefined == [undef |-> TRUE]

NaN == [n |-> 0, d |-> 0]

Abs(i) == IF i < 0 THEN -i ELSE i

Sign(i) == IF i < 0 THEN -1 ELSE IF i > 0 THEN 1 ELSE 0

RECURSIVE GCD(_, _)
GCD(a, b) == IF b = 0 THEN a ELSE GCD(b, a % b)

\* The number n/d, in lowest terms.
Rat(n, d) ==
    IF d = 0 THEN [n |-> Sign(n), d |-> 0]
    ELSE LET g == GCD(Abs(n), Abs(d))
         IN  [n |-> (Sign(d) * n) \div g, d |-> Abs(d) \div g]

R(i) == [n |-> i, d |-> 1]

IsNaN(a) == a.n = 0 /\ a.d = 0

\* ToNumber: undefined converts to NaN.
ToNumber(v) == IF v = undefined THEN NaN ELSE v

\* a + b
Add(v, w) ==
    LET a == ToNumber(v)
        b == ToNumber(w)
    IN  IF IsNaN(a) \/ IsNaN(b) THEN NaN
        ELSE IF a.d = 0 /\ b.d = 0 THEN (IF a.n = b.n THEN a ELSE NaN)
        ELSE Rat(a.n * b.d + b.n * a.d, a.d * b.d)

\* a * b
Mul(v, w) ==
    LET a == ToNumber(v)
        b == ToNumber(w)
    IN  IF IsNaN(a) \/ IsNaN(b) THEN NaN ELSE Rat(a.n * b.n, a.d * b.d)

\* a - b
Sub(v, w) == Add(v, Mul(R(-1), w))

\* a / b
Div(v, w) ==
    LET a == ToNumber(v)
        b == ToNumber(w)
    IN  IF IsNaN(a) \/ IsNaN(b) THEN NaN ELSE Rat(a.n * b.d, a.d * b.n)

\* a < b; false when either side is NaN.
Less(v, w) ==
    LET a == ToNumber(v)
        b == ToNumber(w)
    IN  ~IsNaN(a) /\ ~IsNaN(b) /\ a.n * b.d < b.n * a.d

\* a > b
Greater(v, w) == Less(w, v)

\* a <= b
LessEq(v, w) ==
    LET a == ToNumber(v)
        b == ToNumber(w)
    IN  ~IsNaN(a) /\ ~IsNaN(b) /\ a.n * b.d <= b.n * a.d

\* ToBoolean of a number or undefined: undefined, NaN and 0 are falsy.
Truthy(v) == v # undefined /\ ~IsNaN(v) /\ v.n # 0

\* v || w
OrElse(v, w) == IF Truthy(v) THEN v ELSE w

\* Variant: Math.floor in place of Math.round.
Round_Floor(v) ==
    LET a == ToNumber(v)
    IN  IF a.d = 0 THEN a ELSE R(a.n \div a.d)

\* Math.round: the nearest integer, halves rounded up; NaN and the
\* infinities are returned unchanged.
Round(v) ==
    LET a == ToNumber(v)
    IN  IF a.d = 0 THEN a ELSE R((2 * a.n + a.d) \div (2 * a.d))

RECURSIVE MinOf(_)
\* Math.min(...s): Infinity for no argument, NaN when any argument is NaN.
MinOf(s) ==
    IF s = <<>> THEN Rat(1, 0)
    ELSE LET h == ToNumber(Head(s))
             t == MinOf(Tail(s))
         IN  IF IsNaN(h) \/ IsNaN(t) THEN NaN
             ELSE IF Less(h, t) THEN h ELSE t

RECURSIVE MaxOf(_)
\* Math.max(...s): -Infinity for no argument, NaN when any argument is NaN.
MaxOf(s) ==
    IF s = <<>> THEN Rat(-1, 0)
    ELSE LET h == ToNumber(Head(s))
             t == MaxOf(Tail(s))
         IN  IF IsNaN(h) \/ IsNaN(t) THEN NaN
             ELSE IF Less(t, h) THEN h ELSE t

(***************************************************************************)
(* Objects                                                                 *)
(***************************************************************************)
\* The object has the property (and it is not null).
Has(obj, f) == f \in DOMAIN obj

\* obj.f for a numeric property: undefined when the property is absent.
Prop(obj, f) == IF Has(obj, f) THEN obj[f] ELSE undefined

\* obj?.f?.g for a numeric property g of an optional object property f.
OptProp(obj, f, g) == IF Has(obj, f) THEN Prop(obj[f], g) ELSE undefined

RECURSIVE Flatten(_)
\* The concatenation of a sequence of sequences.
Flatten(ss) == IF ss = <<>> THEN <<>> ELSE Head(ss) \o Flatten(Tail(ss))


(***************************************************************************)
(* Program constants                                                       *)
(***************************************************************************)
\* The viewport of the render area.
targetViewWidth == 900

targetViewHeight == 600

\* The font size of a TEXT node that has none.
DefaultFontSize == 16

\* The envelope returned when there is nothing to measure.
DefaultEnvelope ==
    [offset |-> [x |-> R(0), y |-> R(0)], scale |-> R(1),
     viewWidth |-> R(targetViewWidth), viewHeight |-> R(targetViewHeight)]

(***************************************************************************)
(* collectNodesWithBBox                                                    *)
(***************************************************************************)
RECURSIVE collectNodesWithBBox(_)
\* Variant: the node is pushed after its children have been visited.
collectNodesWithBBox_PostOrder(node) ==
    (IF Has(node, "children")
     THEN Flatten([i \in 1..Len(node.children) |->
                      collectNodesWithBBox(node.children[i])])
     ELSE <<>>)
    \o (IF Has(node, "absoluteBoundingBox") THEN <<node>> ELSE <<>>)

\* The nodes of the subtree that have an absoluteBoundingBox: the node
\* itself first, then what each child contributes, children in array order.
collectNodesWithBBox(node) ==
    (IF Has(node, "absoluteBoundingBox") THEN <<node>> ELSE <<>>)
    \o (IF Has(node, "children")
        THEN Flatten([i \in 1..Len(node.children) |->
                         collectNodesWithBBox(node.children[i])])
        ELSE <<>>)

(***************************************************************************)
(* The envelope useMemo of App                                             *)
(***************************************************************************)
\* Math.min(...nodes.map(n => n.absoluteBoundingBox.x))
minX(nodes) ==
    MinOf([i \in 1..Len(nodes) |-> Prop(nodes[i].absoluteBoundingBox, "x")])

\* Math.min(...nodes.map(n => n.absoluteBoundingBox.y))
minY(nodes) ==
    MinOf([i \in 1..Len(nodes) |-> Prop(nodes[i].absoluteBoundingBox, "y")])

\* Math.max(...nodes.map(n => box.x + (box.width || 0)))
maxX(nodes) ==
    MaxOf([i \in 1..Len(nodes) |->
              Add(Prop(nodes[i].absoluteBoundingBox, "x"),
                  OrElse(Prop(nodes[i].absoluteBoundingBox, "width"), R(0)))])

\* Math.max(...nodes.map(n => box.y + (box.height || 0)))
maxY(nodes) ==
    MaxOf([i \in 1..Len(nodes) |->
              Add(Prop(nodes[i].absoluteBoundingBox, "y"),
                  OrElse(Prop(nodes[i].absoluteBoundingBox, "height"), R(0)))])

\* Variant: the extent without the || 1.
pageWidth_NoGuard(nodes) == Sub(maxX(nodes), minX(nodes))

\* (maxX - minX) || 1
pageWidth(nodes) == OrElse(Sub(maxX(nodes), minX(nodes)), R(1))

\* (maxY - minY) || 1
pageHeight(nodes) == OrElse(Sub(maxY(nodes), minY(nodes)), R(1))

\* Variant: the page is scaled only when it is both wider and taller.
newScale_BothExceed(pw, ph) ==
    IF Greater(pw, R(targetViewWidth)) /\ Greater(ph, R(targetViewHeight))
    THEN MinOf(<<Div(R(targetViewWidth), pw), Div(R(targetViewHeight), ph)>>)
    ELSE R(1)

\* Variant: the larger of the two ratios is taken.
newScale_Max(pw, ph) ==
    IF Greater(pw, R(targetViewWidth)) \/ Greater(ph, R(targetViewHeight))
    THEN MaxOf(<<Div(R(targetViewWidth), pw), Div(R(targetViewHeight), ph)>>)
    ELSE R(1)

\* The scale for a page of the given extent: 1, or the fit to the viewport
\* when the page is wider or taller than the viewport.
newScale(pw, ph) ==
    IF Greater(pw, R(targetViewWidth)) \/ Greater(ph, R(targetViewHeight))
    THEN MinOf(<<Div(R(targetViewWidth), pw), Div(R(targetViewHeight), ph)>>)
    ELSE R(1)

\* Variant: no early return for a page without a boxed node.
Envelope_NoEmptyCheck(selectedPage) ==
    IF selectedPage = undefined THEN DefaultEnvelope
    ELSE LET nodes == collectNodesWithBBox(selectedPage)
         IN  [offset |-> [x |-> minX(nodes), y |-> minY(nodes)],
              scale |-> newScale(pageWidth(nodes), pageHeight(nodes)),
              viewWidth |-> R(targetViewWidth),
              viewHeight |-> R(targetViewHeight)]

\* The value of the useMemo for a selected page (undefined when no page).
Envelope(selectedPage) ==
    IF selectedPage = undefined THEN DefaultEnvelope
    ELSE LET nodes == collectNodesWithBBox(selectedPage)
         IN  IF Len(nodes) = 0 THEN DefaultEnvelope
             ELSE [offset |-> [x |-> minX(nodes), y |-> minY(nodes)],
                   scale |-> newScale(pageWidth(nodes), pageHeight(nodes)),
                   viewWidth |-> R(targetViewWidth),
                   viewHeight |-> R(targetViewHeight)]

\* The scale of the earlier version of the useMemo: no || 0 on the sizes,
\* no || 1 on the extents, and 1 as a third argument of Math.min.
earlierScale(nodes) ==
    LET right  == MaxOf([i \in 1..Len(nodes) |->
                           Add(Prop(nodes[i].absoluteBoundingBox, "x"),
                               Prop(nodes[i].absoluteBoundingBox, "width"))])
        bottom == MaxOf([i \in 1..Len(nodes) |->
                           Add(Prop(nodes[i].absoluteBoundingBox, "y"),
                               Prop(nodes[i].absoluteBoundingBox, "height"))])
    IN  MinOf(<<Div(R(targetViewWidth), Sub(right, minX(nodes))),
                Div(R(targetViewHeight), Sub(bottom, minY(nodes))),
                R(1)>>)

(***************************************************************************)
(* FigmaNode                                                               *)
(***************************************************************************)
\* The result of evaluating an expression that throws a TypeError.
TypeError == [exception |-> "TypeError"]

\* The background of a RECTANGLE: rgba(...) of the first fill when that fill
\* is SOLID, else transparent.  Reading a channel of a SOLID fill that has
\* no color throws.
Background(node) ==
    IF Has(node, "fills") /\ Len(node.fills) >= 1
       /\ Has(node.fills[1], "type") /\ node.fills[1].type = "SOLID"
    THEN IF ~Has(node.fills[1], "color") THEN TypeError
         ELSE [css |-> "rgba",
               r |-> Round(Mul(Prop(node.fills[1].color, "r"), R(255))),
               g |-> Round(Mul(Prop(node.fills[1].color, "g"), R(255))),
               b |-> Round(Mul(Prop(node.fills[1].color, "b"), R(255))),
               a |-> Prop(node.fills[1].color, "a")]
    ELSE [css |-> "transparent"]

\* Variant: the offset is not subtracted.
Left_NoOffset(node, offset, scale) ==
    Mul(OrElse(OptProp(node, "absoluteBoundingBox", "x"), R(0)), scale)

\* ((node.absoluteBoundingBox?.x || 0) - offset.x) * scale
Left(node, offset, scale) ==
    Mul(Sub(OrElse(OptProp(node, "absoluteBoundingBox", "x"), R(0)), offset.x),
        scale)

\* ((node.absoluteBoundingBox?.y || 0) - offset.y) * scale
Top(node, offset, scale) ==
    Mul(Sub(OrElse(OptProp(node, "absoluteBoundingBox", "y"), R(0)), offset.y),
        scale)

\* (node.absoluteBoundingBox?.width || 0) * scale
Width(node, scale) ==
    Mul(OrElse(OptProp(node, "absoluteBoundingBox", "width"), R(0)), scale)

\* (node.absoluteBoundingBox?.height || 0) * scale
Height(node, scale) ==
    Mul(OrElse(OptProp(node, "absoluteBoundingBox", "height"), R(0)), scale)

\* Variant: only a positive font size is kept.
resolvedFontSize_PositiveOnly(node) ==
    IF Greater(OptProp(node, "style", "fontSize"), R(0))
    THEN OptProp(node, "style", "fontSize")
    ELSE R(DefaultFontSize)

\* node.style?.fontSize || 16
resolvedFontSize(node) ==
    OrElse(OptProp(node, "style", "fontSize"), R(DefaultFontSize))

\* Variant: the font size is not scaled.
FontSize_Unscaled(node, scale) == resolvedFontSize(node)

\* (node.style?.fontSize || 16) * scale
FontSize(node, scale) == Mul(resolvedFontSize(node), scale)

\* node.style?.fontFamily || 'sans-serif'
FontFamily(node) ==
    IF Has(node, "style") /\ Has(node.style, "fontFamily")
       /\ node.style.fontFamily # ""
    THEN node.style.fontFamily
    ELSE "sans-serif"

\* {node.characters}: an absent string renders as no text.
Characters(node) == IF Has(node, "characters") THEN node.characters ELSE ""

\* The <div> of a RECTANGLE node.
RectangleDiv(node, offset, scale) ==
    [kind |-> "Rect",
     left |-> Left(node, offset, scale), top |-> Top(node, offset, scale),
     width |-> Width(node, scale), height |-> Height(node, scale),
     background |-> Background(node)]

\* The <div> of a TEXT node.
TextDiv(node, offset, scale) ==
    [kind |-> "TextBlock",
     left |-> Left(node, offset, scale), top |-> Top(node, offset, scale),
     width |-> Width(node, scale), height |-> Height(node, scale),
     color |-> "#222",
     fontSize |-> FontSize(node, scale), fontFamily |-> FontFamily(node),
     text |-> Characters(node)]

\* Variant: the elements are rendered last to first.
RenderAll_Reversed(outcomes) ==
    IF \E i \in 1..Len(outcomes) : outcomes[i].threw
    THEN [threw |-> TRUE, prims |-> <<>>]
    ELSE [threw |-> FALSE,
          prims |-> Flatten([i \in 1..Len(outcomes) |->
                                outcomes[Len(outcomes) + 1 - i].prims])]

\* The outcome of rendering a list of elements: it throws when one of them
\* throws, else it is their <div>s in order.
RenderAll(outcomes) ==
    IF \E i \in 1..Len(outcomes) : outcomes[i].threw
    THEN [threw |-> TRUE, prims |-> <<>>]
    ELSE [threw |-> FALSE,
          prims |-> Flatten([i \in 1..Len(outcomes) |-> outcomes[i].prims])]

RECURSIVE FigmaNode(_, _, _)
\* The outcome of rendering <FigmaNode node offset scale/>: whether it threw,
\* and the <div>s it produced, in document order.
FigmaNode(node, offset, scale) ==
    IF node.type = "RECTANGLE"
    THEN IF Background(node) = TypeError
         THEN [threw |-> TRUE, prims |-> <<>>]
         ELSE [threw |-> FALSE, prims |-> <<RectangleDiv(node, offset, scale)>>]
    ELSE IF node.type = "TEXT"
    THEN [threw |-> FALSE, prims |-> <<TextDiv(node, offset, scale)>>]
    ELSE IF Has(node, "children")
    THEN RenderAll([i \in 1..Len(node.children) |->
                       FigmaNode(node.children[i], offset, scale)])
    ELSE [threw |-> FALSE, prims |-> <<>>]

(***************************************************************************)
(* The App component: derived values and render                            *)
(***************************************************************************)
\* The value null of a state variable, and a string held by one.
Null == [null |-> TRUE]

Str(s) == [str |-> s]

\* figmaData?.document?.children || []
pages(data) ==
    IF data # Null /\ Has(data, "document") /\ Has(data.document, "children")
    THEN data.document.children
    ELSE <<>>

\* Variant: pages.find(...) without the fallback to the first page.
selectedPage_NoFallback(pgs, selId) ==
    IF \E i \in 1..Len(pgs) : Str(pgs[i].id) = selId
    THEN pgs[CHOOSE i \in 1..Len(pgs) :
                 /\ Str(pgs[i].id) = selId
                 /\ \A j \in 1..(i - 1) : Str(pgs[j].id) # selId]
    ELSE undefined

\* pages.find(p => p.id === selectedPageId) || pages[0]
selectedPage(pgs, selId) ==
    IF \E i \in 1..Len(pgs) : Str(pgs[i].id) = selId
    THEN pgs[CHOOSE i \in 1..Len(pgs) :
                 /\ Str(pgs[i].id) = selId
                 /\ \A j \in 1..(i - 1) : Str(pgs[j].id) # selId]
    ELSE IF Len(pgs) > 0 THEN pgs[1] ELSE undefined

\* What one render of App computes: the selected page, the envelope, and the
\* outcome of each <FigmaNode> of the render area (one per child of the
\* selected page, none while there is no document).
Render(data, selId) ==
    LET sp  == selectedPage(pages(data), selId)
        env == Envelope(sp)
        els == IF data # Null /\ sp # undefined /\ Has(sp, "children")
               THEN [i \in 1..Len(sp.children) |->
                        FigmaNode(sp.children[i], env.offset, env.scale)]
               ELSE <<>>
    IN  [selectedPage |-> sp,
         nodes        |-> IF sp = undefined THEN <<>>
                          ELSE collectNodesWithBBox(sp),
         envelope     |-> env,
         elements     |-> els,
         threw        |-> RenderAll(els).threw]

\* The effect after a render: with pages and no selection, the first page is
\* selected.
EffectSelect(data, selId) ==
    IF Len(pages(data)) > 0 /\ (selId = Null \/ selId = Str(""))
    THEN Str(pages(data)[1].id)
    ELSE selId

(***************************************************************************)
(* Bounds                                                                  *)
(***************************************************************************)
\* The most nodes below the page in a document of the tree family.
MaxNodes == 3

\* The most children of the page in a document of the geometry family.
MaxSiblings == 2

\* The most messages in flight on the WebSocket.
MaxInFlight == 1

(***************************************************************************)
(* Documents the server can send                                           *)
(***************************************************************************)
Box(x, y, w, h) == [x |-> R(x), y |-> R(y), width |-> R(w), height |-> R(h)]

Solid(r, g, b, a) ==
    [type |-> "SOLID", color |-> [r |-> r, g |-> g, b |-> b, a |-> a]]

Page(id, kids) ==
    [id |-> id, name |-> "Page " \o id, type |-> "CANVAS", children |-> kids]

Doc(pgs) ==
    [name |-> "Design",
     document |-> [id |-> "0:0", type |-> "DOCUMENT", children |-> pgs]]

\* --- the tree family: every shape of at most MaxNodes nodes, each node of
\* one of these kinds; a node without children either has no children
\* property or an empty array, depending on its kind.
TreeKinds ==
    << [kind |-> [type |-> "FRAME"], leaf |-> "array"],
       [kind |-> [type |-> "FRAME",
                  absoluteBoundingBox |-> Box(0, 0, 400, 300)],
        leaf |-> "absent"],
       [kind |-> [type |-> "GROUP"], leaf |-> "absent"],
       [kind |-> [type |-> "VECTOR",
                  absoluteBoundingBox |-> Box(50, 60, 20, 20)],
        leaf |-> "array"],
       [kind |-> [type |-> "RECTANGLE",
                  absoluteBoundingBox |-> Box(10, 20, 100, 50),
                  fills |-> <<Solid(R(1), R(0), R(0), Rat(1, 2))>>],
        leaf |-> "absent"],
       [kind |-> [type |-> "RECTANGLE"], leaf |-> "absent"],
       [kind |-> [type |-> "TEXT",
                  absoluteBoundingBox |-> Box(30, 40, 1000, 20),
                  characters |-> "Hi",
                  style |-> [fontSize |-> R(12), fontFamily |-> "Inter"]],
        leaf |-> "absent"] >>

MkNode(id, k, kids) ==
    IF kids = <<>> /\ TreeKinds[k].leaf = "absent"
    THEN [id |-> id, name |-> id] @@ TreeKinds[k].kind
    ELSE [id |-> id, name |-> id, children |-> kids] @@ TreeKinds[k].kind

RECURSIVE TreeOf(_, _)
RECURSIVE ForestOf(_, _, _)
\* The trees of exactly n nodes whose root has the given id.
TreeOf(n, id) ==
    UNION { { MkNode(id, k, kids) : kids \in ForestOf(n - 1, id, 1) } :
            k \in 1..Len(TreeKinds) }

\* The sequences of trees of n nodes in all, the first one numbered idx
\* under the parent id.
ForestOf(n, parent, idx) ==
    IF n = 0 THEN {<<>>}
    ELSE UNION { { <<t>> \o rest :
                     t \in TreeOf(m, parent \o "." \o ToString(idx)),
                     rest \in ForestOf(n - m, parent, idx + 1) } :
                 m \in 1..n }

TreePages ==
    UNION { { Page("0:1", kids) : kids \in ForestOf(n, "1", 1) } :
            n \in 0..MaxNodes }

\* --- the geometry family: a page of up to MaxSiblings boxed children of
\* one type.
GeomBoxes ==
    { Box(0, 0, 100, 50), Box(10, 20, 100, 50), Box(800, 0, 100, 50),
      Box(0, 0, 900, 600), Box(0, 0, 901, 600), Box(0, 0, 1800, 600),
      Box(0, 0, 900, 1200), Box(0, 0, 1800, 900), Box(0, 0, 1200, 1200),
      Box(10, 20, 0, 0), Box(-100, -100, 100, 100),
      Box(0, 0, -50, -50), Box(0, 0, 1800, -50),
      [x |-> R(0), y |-> R(0), width |-> Rat(1, 2), height |-> Rat(1, 2)],
      [x |-> R(5), y |-> R(5)],
      [width |-> R(100), height |-> R(50)],
      [y |-> R(7), width |-> R(100)] }

GeomNode(type, i, box) ==
    [id |-> "2." \o ToString(i), name |-> "Shape", type |-> type,
     absoluteBoundingBox |-> box]

GeomPages ==
    UNION { { Page("0:1", [i \in 1..n |-> GeomNode(type, i, bs[i])]) :
                bs \in [1..n -> GeomBoxes], type \in {"RECTANGLE", "TEXT"} } :
            n \in 1..MaxSiblings }

\* --- the style family: a page of one RECTANGLE or TEXT child, over the
\* fill lists and text styles.
FillLists ==
    { <<>>,
      <<[type |-> "IMAGE"]>>,
      <<[type |-> "GRADIENT_LINEAR"], Solid(R(0), R(0), R(1), R(1))>>,
      <<[color |-> [r |-> R(1), g |-> R(0), b |-> R(0), a |-> R(1)]]>>,
      <<Solid(R(1), R(0), R(0), Rat(1, 2))>>,
      <<Solid(Rat(1, 2), Rat(1, 3), Rat(1, 510), R(1))>>,
      <<Solid(R(1), R(0), R(0), R(1)), Solid(R(0), R(0), R(1), R(1))>>,
      <<Solid(R(1), R(0), R(0), R(1)), [type |-> "IMAGE"]>>,
      <<[type |-> "SOLID"]>>,
      <<[type |-> "SOLID", color |-> [a |-> R(1)]]>>,
      <<[type |-> "SOLID", color |-> [r |-> R(1), g |-> R(0), b |-> R(0)]]>> }

TextStyles ==
    { [fontSize |-> R(24), fontFamily |-> "Inter"],
      [fontSize |-> R(24)],
      [fontFamily |-> "Inter"],
      [fontSize |-> R(0), fontFamily |-> "Inter"],
      [fontSize |-> R(-4), fontFamily |-> ""],
      [fontSize |-> Rat(21, 2), fontFamily |-> "Roboto"] }

StyleBoxes == { Box(10, 20, 100, 50), Box(0, 0, 1800, 600) }

StyleBase(type) == [id |-> "3.1", name |-> "Styled", type |-> type]

StyleNodes ==
    LET rects == {StyleBase("RECTANGLE")}
                 \cup { StyleBase("RECTANGLE") @@ [fills |-> f] :
                          f \in FillLists }
        texts == {StyleBase("TEXT")}
                 \cup { StyleBase("TEXT") @@ [characters |-> c] :
                          c \in {"", "Hello\nworld"} }
                 \cup { StyleBase("TEXT") @@ [style |-> st, characters |-> "Hi"] :
                          st \in TextStyles }
        bare  == rects \cup texts
    IN  bare \cup { n @@ [absoluteBoundingBox |-> b] :
                      n \in bare, b \in StyleBoxes }

\* A RECTANGLE that has children of its own, and a TEXT that has.
NestedLeaves ==
    { [id |-> "4.1", name |-> "Card", type |-> "RECTANGLE",
       absoluteBoundingBox |-> Box(0, 0, 200, 100),
       children |-> <<GeomNode("TEXT", 1, Box(1000, 10, 50, 20))>>],
      [id |-> "4.1", name |-> "Label", type |-> "TEXT",
       absoluteBoundingBox |-> Box(20, 10, 200, 100), characters |-> "A",
       style |-> [fontSize |-> R(24), fontFamily |-> "Inter"],
       children |-> <<GeomNode("RECTANGLE", 1, Box(0, 0, 1800, 300))>>] }

StylePages == { Page("0:1", <<n>>) : n \in StyleNodes \cup NestedLeaves }

\* --- pages that are unusual themselves: a page with a box of its own, a
\* page without a children property.
OddPages ==
    { Page("0:1", <<GeomNode("RECTANGLE", 1, Box(100, 100, 50, 50))>>)
          @@ [absoluteBoundingBox |-> Box(0, 0, 2000, 1000)],
      [id |-> "0:1", name |-> "Page 0:1", type |-> "CANVAS"],
      [id |-> "0:1", name |-> "Page 0:1", type |-> "CANVAS",
       absoluteBoundingBox |-> Box(0, 0, 300, 300)] }

\* --- documents of several pages, with page ids that change between
\* documents.
PageA(id) == Page(id, <<GeomNode("RECTANGLE", 1, Box(10, 20, 100, 50))>>)

PageB(id) == Page(id, <<GeomNode("TEXT", 1, Box(0, 0, 1800, 600)),
                        GeomNode("RECTANGLE", 2, Box(900, 300, 900, 300))>>)

PageC(id) == Page(id, <<>>)

ManyPageDocs ==
    { Doc(<<PageA("0:1"), PageB("0:2")>>),
      Doc(<<PageB("0:1"), PageA("0:2")>>),
      Doc(<<PageA("0:2"), PageC("0:3")>>),
      Doc(<<PageC("0:1"), PageB("0:2"), PageA("0:3")>>) }

\* --- documents without a page.
NoPageDocs ==
    { [name |-> "Design"],
      [name |-> "Design", document |-> [id |-> "0:0", type |-> "DOCUMENT"]],
      Doc(<<>>) }

\* The documents of the layout specification.
LayoutDocs ==
    { Doc(<<p>>) : p \in TreePages \cup GeomPages \cup StylePages \cup OddPages }
    \cup ManyPageDocs \cup NoPageDocs

\* The documents of the viewer specification.
ViewerDocs ==
    ManyPageDocs \cup {[name |-> "Design"]}
    \cup { Doc(<<Page("0:1", <<StyleBase("RECTANGLE")
                                 @@ [fills |-> <<[type |-> "SOLID"]>>]>>)>>) }

\* What travels on the WebSocket: the text of a message.  A text that is
\* JSON is represented by the value it encodes.
Json(value) == [json |-> value]

Garbage == [text |-> "<html>502 Bad Gateway</html>"]

LayoutPayloads == { Json(d) : d \in LayoutDocs } \cup {Garbage}

ViewerPayloads == { Json(d) : d \in ViewerDocs } \cup {Garbage}

\* The outcomes of POST /api/generate-html, as the viewer sees them.
Outcomes ==
    { [kind |-> "rejected", message |-> "Failed to fetch"],
      [kind |-> "notJson", message |-> "Unexpected token < in JSON"],
      [kind |-> "notOk", message |-> "Gemini API quota exceeded"],
      [kind |-> "ok", message |-> "HTML generated", htmlContent |-> "<main></main>"],
      [kind |-> "ok", message |-> "HTML generated", htmlContent |-> ""],
      [kind |-> "ok", message |-> "HTML generated"] }

ErrorHtml == "<p style=\"color: red;\">Error fetching or processing HTML from backend.</p>"

MissingHtml == "<p>HTML content was not provided by the server.</p>"

(***************************************************************************)
(* State                                                                   *)
(***************************************************************************)
VARIABLES
    figmaData,       \* useState: the last document received, or Null
    error,           \* useState: Null or the error string shown
    selectedPageId,  \* useState: Null or the id chosen
    generatedHtml,   \* useState: the generated markup shown
    serverMessage,   \* useState: the server's message shown
    isGenerating,    \* useState: a generation request is running
    request,         \* the fetches of handleGenerateHtml not yet settled
    socket,          \* the WebSocket: "open" or "closed"
    wire,            \* the messages sent to this viewer and not yet received
    ui,              \* what the last render of App computed
    mounted,         \* the component tree is mounted
    upstream         \* the server's last poll of the design API: "failed"
                     \* after a fetch that failed, "idle" otherwise

vars == <<figmaData, error, selectedPageId, generatedHtml, serverMessage,
          isGenerating, request, socket, wire, ui, mounted, upstream>>

\* The state after the first render: no document, nothing selected.
Constructed ==
    /\ figmaData = Null
    /\ error = Null
    /\ selectedPageId = Null
    /\ generatedHtml = ""
    /\ serverMessage = ""
    /\ isGenerating = FALSE
    /\ request = <<>>
    /\ socket = "open"
    /\ ui = Render(Null, Null)
    /\ mounted = TRUE

Init == Constructed /\ wire = <<>> /\ upstream = "idle"

\* Variant: the envelope is memoised on the id of the selected page and kept
\* while that id stays the same.
Commit_MemoById(data, selId) ==
    LET first  == Render(data, selId)
        selId2 == EffectSelect(data, selId)
        second == Render(data, selId2)
        memo(r) == IF /\ r.selectedPage # undefined
                      /\ ui.selectedPage # undefined
                      /\ r.selectedPage.id = ui.selectedPage.id
                   THEN [r EXCEPT !.envelope = ui.envelope]
                   ELSE r
    IN  IF first.threw
        THEN /\ selectedPageId' = selId
             /\ ui' = memo(first)
             /\ mounted' = FALSE
        ELSE /\ selectedPageId' = selId2
             /\ ui' = memo(second)
             /\ mounted' = ~second.threw

\* A state change is followed by a render and then the effect that selects
\* the first page, which renders again.  A render that throws unmounts the
\* tree (there is no error boundary) before any effect runs.
Commit(data, selId) ==
    LET first  == Render(data, selId)
        selId2 == EffectSelect(data, selId)
        second == Render(data, selId2)
    IN  IF first.threw
        THEN /\ selectedPageId' = selId
             /\ ui' = first
             /\ mounted' = FALSE
        ELSE /\ selectedPageId' = selId2
             /\ ui' = second
             /\ mounted' = ~second.threw

(***************************************************************************)
(* Operations                                                              *)
(***************************************************************************)
\* The server's poll has succeeded: it sends a message to the viewer.
ServerBroadcast ==
    /\ upstream' = "idle"
    /\ socket = "open"
    /\ Len(wire) < MaxInFlight
    /\ \E p \in ViewerPayloads : wire' = Append(wire, p)
    /\ UNCHANGED <<figmaData, error, selectedPageId, generatedHtml,
                   serverMessage, isGenerating, request, socket, ui, mounted>>

\* The server's poll has failed or was answered with a non-success status:
\* the server sends nothing.
ServerFetchFailed ==
    /\ upstream' = "failed"
    /\ UNCHANGED <<figmaData, error, selectedPageId, generatedHtml,
                   serverMessage, isGenerating, request, socket, wire, ui,
                   mounted>>

\* Variant: a message that does not parse clears the document.
OnMessage_ClearsOnFailure ==
    /\ mounted
    /\ socket = "open"
    /\ wire # <<>>
    /\ wire' = Tail(wire)
    /\ IF Has(Head(wire), "json")
       THEN /\ figmaData' = Head(wire).json
            /\ error' = Null
            /\ Commit(Head(wire).json, selectedPageId)
       ELSE /\ error' = Str("Failed to parse Figma data")
            /\ figmaData' = Null
            /\ Commit(Null, selectedPageId)
    /\ UNCHANGED <<generatedHtml, serverMessage, isGenerating, request, socket,
                   upstream>>

\* ws.onmessage
OnMessage ==
    /\ mounted
    /\ socket = "open"
    /\ wire # <<>>
    /\ wire' = Tail(wire)
    /\ IF Has(Head(wire), "json")
       THEN /\ figmaData' = Head(wire).json
            /\ error' = Null
            /\ Commit(Head(wire).json, selectedPageId)
       ELSE /\ error' = Str("Failed to parse Figma data")
            /\ figmaData' = figmaData
            /\ Commit(figmaData, selectedPageId)
    /\ UNCHANGED <<generatedHtml, serverMessage, isGenerating, request, socket,
                   upstream>>

\* ws.onerror
OnError ==
    /\ mounted
    /\ socket = "open"
    /\ error' = Str("WebSocket error. Check if the server is running.")
    /\ Commit(figmaData, selectedPageId)
    /\ UNCHANGED <<figmaData, generatedHtml, serverMessage, isGenerating,
                   request, socket, wire, upstream>>

\* ws.onclose: the socket is closed, what was in flight is lost.
OnClose ==
    /\ socket = "open"
    /\ socket' = "closed"
    /\ wire' = <<>>
    /\ UNCHANGED <<figmaData, error, selectedPageId, generatedHtml,
                   serverMessage, isGenerating, request, ui, mounted, upstream>>

\* onChange of the page select: one of the listed pages is chosen.
SelectPage(i) ==
    /\ mounted
    /\ figmaData # Null
    /\ i \in 1..Len(pages(figmaData))
    /\ Commit(figmaData, Str(pages(figmaData)[i].id))
    /\ UNCHANGED <<figmaData, error, generatedHtml, serverMessage,
                   isGenerating, request, socket, wire, upstream>>

\* handleGenerateHtml up to the fetch: the button is shown for a selected
\* page and is disabled while a request is running.
GenerateClick ==
    /\ mounted
    /\ figmaData # Null
    /\ ui.selectedPage # undefined
    /\ ~isGenerating
    /\ isGenerating' = TRUE
    /\ generatedHtml' = ""
    /\ serverMessage' = ""
    /\ error' = Null
    /\ request' = Append(request, [body |-> ui.selectedPage])
    /\ Commit(figmaData, selectedPageId)
    /\ UNCHANGED <<figmaData, socket, wire, upstream>>

\* Variant: a successful response clears the error string.
GenerateSettled_ClearsError(o) ==
    /\ request # <<>>
    /\ request' = Tail(request)
    /\ IF ~mounted
       THEN UNCHANGED <<error, generatedHtml, serverMessage, isGenerating,
                        selectedPageId, ui, mounted>>
       ELSE /\ IF o.kind = "ok"
               THEN /\ serverMessage' = o.message
                    /\ generatedHtml' =
                           IF Has(o, "htmlContent") /\ o.htmlContent # ""
                           THEN o.htmlContent ELSE MissingHtml
                    /\ error' = Null
               ELSE /\ error' = Str("Failed to generate HTML: " \o o.message)
                    /\ generatedHtml' = ErrorHtml
                    /\ serverMessage' = ""
            /\ isGenerating' = FALSE
            /\ Commit(figmaData, selectedPageId)
    /\ UNCHANGED <<figmaData, socket, wire, upstream>>

\* handleGenerateHtml after the fetch has settled.  The setters of an
\* unmounted component do nothing.
GenerateSettled(o) ==
    /\ request # <<>>
    /\ request' = Tail(request)
    /\ IF ~mounted
       THEN UNCHANGED <<error, generatedHtml, serverMessage, isGenerating,
                        selectedPageId, ui, mounted>>
       ELSE /\ IF o.kind = "ok"
               THEN /\ serverMessage' = o.message
                    /\ generatedHtml' =
                           IF Has(o, "htmlContent") /\ o.htmlContent # ""
                           THEN o.htmlContent ELSE MissingHtml
                    /\ error' = error
               ELSE /\ error' = Str("Failed to generate HTML: " \o o.message)
                    /\ generatedHtml' = ErrorHtml
                    /\ serverMessage' = ""
            /\ isGenerating' = FALSE
            /\ Commit(figmaData, selectedPageId)
    /\ UNCHANGED <<figmaData, socket, wire, upstream>>

Next ==
    \/ ServerBroadcast
    \/ ServerFetchFailed
    \/ OnMessage
    \/ OnError
    \/ OnClose
    \/ \E i \in 1..3 : SelectPage(i)
    \/ GenerateClick
    \/ \E o \in Outcomes : GenerateSettled(o)

Spec == Init /\ [][Next]_vars

(***************************************************************************)
(* The layout engine on its own: one document is on its way to a freshly   *)
(* constructed viewer, which receives it and lets the user change page.    *)
(***************************************************************************)
InitLayout ==
    /\ Constructed
    /\ upstream = "idle"
    /\ \E p \in LayoutPayloads : wire = <<p>>

NextLayout ==
    \/ OnMessage
    \/ \E i \in 1..3 : SelectPage(i)

SpecLayout == InitLayout /\ [][NextLayout]_vars

(***************************************************************************)
(* Properties                                                              *)
(***************************************************************************)
RECURSIVE NodesOf(_)
\* Every node of the tree, the root included.
NodesOf(root) ==
    {root} \cup (IF Has(root, "children")
                 THEN UNION { NodesOf(root.children[i]) :
                                i \in 1..Len(root.children) }
                 ELSE {})

RECURSIVE PreOrder(_)
\* The nodes of the tree in depth-first pre-order, children in stored order.
PreOrder(root) ==
    <<root>> \o (IF Has(root, "children")
                 THEN Flatten([i \in 1..Len(root.children) |->
                                  PreOrder(root.children[i])])
                 ELSE <<>>)

Boxed(n) == Has(n, "absoluteBoundingBox")

\* The page the layout is computed for, and its envelope.
LaidOut == ui.selectedPage # undefined

Offset == ui.envelope.offset

Scale == ui.envelope.scale

\* The least and the greatest number of a non-empty set of numbers.
Least(S) == CHOOSE m \in S : \A o \in S : LessEq(m, o)

Greatest(S) == CHOOSE m \in S : \A o \in S : LessEq(o, m)

\* A box field, an absent one taken as 0.
BoxOr0(n, f) ==
    IF Boxed(n) /\ Has(n.absoluteBoundingBox, f)
    THEN n.absoluteBoundingBox[f] ELSE R(0)

\* Every boxed node of the sequence has the box field.
AllHave(nodes, f) ==
    \A i \in 1..Len(nodes) : Has(nodes[i].absoluteBoundingBox, f)

\* Every boxed node of the sequence has an x and a y.
Positioned(nodes) == AllHave(nodes, "x") /\ AllHave(nodes, "y")

\* maxX - minX of boxed nodes that all have an x, and maxY - minY of boxed
\* nodes that all have a y.
ExtentW(nodes) ==
    Sub(Greatest({ Add(BoxOr0(nodes[i], "x"), BoxOr0(nodes[i], "width")) :
                     i \in 1..Len(nodes) }),
        Least({ BoxOr0(nodes[i], "x") : i \in 1..Len(nodes) }))

ExtentH(nodes) ==
    Sub(Greatest({ Add(BoxOr0(nodes[i], "y"), BoxOr0(nodes[i], "height")) :
                     i \in 1..Len(nodes) }),
        Least({ BoxOr0(nodes[i], "y") : i \in 1..Len(nodes) }))

\* C1: collectNodesWithBBox(root) is exactly the nodes of the tree that have
\* a bounding box, each once, in depth-first pre-order with children in
\* stored order; it is empty iff no node of the tree, root included, has a
\* box.
C1_CollectPreOrder ==
    LaidOut =>
        LET root == ui.selectedPage
        IN  /\ ui.nodes = SelectSeq(PreOrder(root), Boxed)
            /\ \A n \in NodesOf(root) :
                   Cardinality({ i \in 1..Len(ui.nodes) : ui.nodes[i] = n })
                       = (IF Boxed(n) THEN 1 ELSE 0)
            /\ (Len(ui.nodes) = 0) <=> (\A n \in NodesOf(root) : ~Boxed(n))

\* A page where a boxed node with children is collected before its boxed
\* child, and an unboxed node is left out.
C1_Witness ==
    /\ LaidOut
    /\ \E i \in 1..Len(ui.nodes) :
           /\ i < Len(ui.nodes)
           /\ Has(ui.nodes[i], "children")
           /\ Len(ui.nodes[i].children) >= 1
           /\ ui.nodes[i + 1] = ui.nodes[i].children[1]
    /\ \E n \in NodesOf(ui.selectedPage) : n # ui.selectedPage /\ ~Boxed(n)

C3_ScaleAtMostOne ==
    /\ ~Greater(Scale, R(1))
    /\ Len(ui.nodes) > 0 => ~Greater(earlierScale(ui.nodes), R(1))

\* A page taller than the viewport, scaled down.
C3_Witness ==
    /\ Len(ui.nodes) > 0
    /\ Greater(pageHeight(ui.nodes), R(targetViewHeight))
    /\ Less(Scale, R(1))
    /\ Less(earlierScale(ui.nodes), R(1))

\* C4 as stated: pageWidth = max(maxX - minX, 1) and pageHeight =
\* max(maxY - minY, 1), so both are at least 1 for every set of boxed nodes.
C4_FlooredAtOne ==
    (Len(ui.nodes) > 0 /\ Positioned(ui.nodes)) =>
        /\ pageWidth(ui.nodes) = Greatest({ExtentW(ui.nodes), R(1)})
        /\ pageHeight(ui.nodes) = Greatest({ExtentH(ui.nodes), R(1)})
        /\ LessEq(R(1), pageWidth(ui.nodes))
        /\ LessEq(R(1), pageHeight(ui.nodes))

\* C4, amended: pageWidth is maxX - minX and pageHeight is maxY - minY,
\* except that a difference of zero is replaced by 1 (as is one that is not
\* a number); an extent below 1, sub-unit or negative, is used as it is.  So
\* the scale is never computed from a zero extent.
C4_ZeroReplacedByOne ==
    Len(ui.nodes) > 0 =>
        LET pw == pageWidth(ui.nodes)
            ph == pageHeight(ui.nodes)
        IN  /\ pw.n # 0 /\ ph.n # 0
            /\ pw = (IF ~AllHave(ui.nodes, "x") \/ ExtentW(ui.nodes) = R(0)
                     THEN R(1) ELSE ExtentW(ui.nodes))
            /\ ph = (IF ~AllHave(ui.nodes, "y") \/ ExtentH(ui.nodes) = R(0)
                     THEN R(1) ELSE ExtentH(ui.nodes))

\* A page of one zero-size node: both extents are 0 and are replaced by 1.
C4_Witness ==
    /\ Len(ui.nodes) = 1
    /\ Positioned(ui.nodes)
    /\ ExtentW(ui.nodes) = R(0)
    /\ ExtentH(ui.nodes) = R(0)
    /\ pageWidth(ui.nodes) = R(1)
    /\ pageHeight(ui.nodes) = R(1)
    /\ Scale = R(1)

\* C5: when no page is selected, or the selected page has no boxed node, the
\* envelope is offset (0,0), scale 1 and the 900 x 600 viewport.
C5_EmptyEnvelope ==
    (~LaidOut \/ \A n \in NodesOf(ui.selectedPage) : ~Boxed(n)) =>
        ui.envelope = [offset |-> [x |-> R(0), y |-> R(0)], scale |-> R(1),
                       viewWidth |-> R(900), viewHeight |-> R(600)]

\* A received document whose selected page has nodes, none of them boxed.
C5_Witness ==
    /\ figmaData # Null
    /\ LaidOut
    /\ Cardinality(NodesOf(ui.selectedPage)) >= 3
    /\ \A n \in NodesOf(ui.selectedPage) : ~Boxed(n)
    /\ ui.envelope.scale = R(1)
    /\ ui.envelope.offset = [x |-> R(0), y |-> R(0)]

\* The transform of a box into the render area.
ScreenX(n) == Mul(Sub(BoxOr0(n, "x"), Offset.x), Scale)

ScreenY(n) == Mul(Sub(BoxOr0(n, "y"), Offset.y), Scale)

ScreenW(n) == Mul(BoxOr0(n, "width"), Scale)

ScreenH(n) == Mul(BoxOr0(n, "height"), Scale)

\* The nodes of the selected page of the given type.
NodesOfType(t) ==
    IF LaidOut THEN { n \in NodesOf(ui.selectedPage) : n.type = t } ELSE {}

\* C6: projecting a RECTANGLE node gives exactly one Rect, at
\* ((x - offset.x) * scale, (y - offset.y) * scale) and of size
\* (width * scale, height * scale), absent box fields taken as 0, and
\* nothing for its children.
C6_RectangleOneRect ==
    \A n \in NodesOfType("RECTANGLE") :
        LET out == FigmaNode(n, Offset, Scale)
        IN  /\ ~out.threw
            /\ Len(out.prims) = 1
            /\ out.prims[1].kind = "Rect"
            /\ out.prims[1].left = ScreenX(n)
            /\ out.prims[1].top = ScreenY(n)
            /\ out.prims[1].width = ScreenW(n)
            /\ out.prims[1].height = ScreenH(n)

\* C7: projecting a TEXT node gives exactly one TextBlock, with the
\* transform of a RECTANGLE, the font size resolved for the node multiplied
\* by the scale, the font family as resolved, the characters as they are,
\* and nothing for its children.
C7_TextOneTextBlock ==
    \A n \in NodesOfType("TEXT") :
        LET out == FigmaNode(n, Offset, Scale)
        IN  /\ ~out.threw
            /\ Len(out.prims) = 1
            /\ out.prims[1].kind = "TextBlock"
            /\ out.prims[1].left = ScreenX(n)
            /\ out.prims[1].top = ScreenY(n)
            /\ out.prims[1].width = ScreenW(n)
            /\ out.prims[1].height = ScreenH(n)
            /\ out.prims[1].fontSize = Mul(resolvedFontSize(n), Scale)
            /\ out.prims[1].fontFamily = FontFamily(n)
            /\ out.prims[1].text = (IF Has(n, "characters")
                                    THEN n.characters ELSE "")

\* A TEXT child of the page that has a child of its own, a font size of 24
\* and a font family, drawn at scale 1/2 as one block of font size 12.
C7_Witness ==
    /\ Scale = Rat(1, 2)
    /\ Len(ui.elements) = 1
    /\ ui.selectedPage.children[1].type = "TEXT"
    /\ Has(ui.selectedPage.children[1], "children")
    /\ Len(ui.selectedPage.children[1].children) = 1
    /\ Len(ui.elements[1].prims) = 1
    /\ ui.elements[1].prims[1].fontSize = R(12)
    /\ ui.elements[1].prims[1].fontFamily = "Inter"
    /\ ui.elements[1].prims[1].left = R(10)
    /\ ui.elements[1].prims[1].text = "A"

\* The children of a node, none when it has no children property.
ChildrenOf(n) == IF Has(n, "children") THEN n.children ELSE <<>>

\* C8: projecting a node that is neither a RECTANGLE nor a TEXT gives what
\* projecting its children gives, in stored order, and nothing of its own
\* (nothing at all without children); an unrecognized type gives what a
\* FRAME with the same children gives.
C8_ContainerConcatenatesChildren ==
    LaidOut =>
        \A n \in NodesOf(ui.selectedPage) :
            n.type \notin {"RECTANGLE", "TEXT"} =>
                LET out  == FigmaNode(n, Offset, Scale)
                    kids == [i \in 1..Len(ChildrenOf(n)) |->
                                FigmaNode(ChildrenOf(n)[i], Offset, Scale)]
                IN  /\ out.threw <=> \E i \in 1..Len(kids) : kids[i].threw
                    /\ ~out.threw =>
                           out.prims = Flatten([i \in 1..Len(kids) |->
                                                   kids[i].prims])
                    /\ out = FigmaNode([n EXCEPT !.type = "FRAME"],
                                       Offset, Scale)

\* A node of unrecognized type with a box of its own and two children, drawn
\* as its RECTANGLE child and then its TEXT child.
C8_Witness ==
    /\ LaidOut
    /\ \E n \in NodesOf(ui.selectedPage) :
           /\ n.type = "VECTOR"
           /\ Boxed(n)
           /\ Len(ChildrenOf(n)) = 2
           /\ LET out == FigmaNode(n, Offset, Scale)
              IN  /\ Len(out.prims) = 2
                  /\ out.prims[1].kind = "Rect"
                  /\ out.prims[2].kind = "TextBlock"

\* C9: rendering never raises an error, whatever fields the nodes of the
\* document have.
C9_RenderNeverThrows == ~ui.threw /\ mounted

\* The fill list of the node falls under a case for which the fill is to be
\* transparent: no list, an empty list, a first entry that is not SOLID, or
\* a SOLID first entry without its color channels.
NoVisibleFill(n) ==
    \/ ~Has(n, "fills")
    \/ Len(n.fills) = 0
    \/ ~Has(n.fills[1], "type")
    \/ n.fills[1].type # "SOLID"
    \/ ~Has(n.fills[1], "color")
    \/ \E c \in {"r", "g", "b", "a"} : ~Has(n.fills[1].color, c)

\* C10: the background of a RECTANGLE is transparent when its fill list is
\* absent or empty, when the first fill is not SOLID, and when the first
\* fill is SOLID but its color channel data is missing.
C10_TransparentFallbacks ==
    \A n \in NodesOfType("RECTANGLE") :
        NoVisibleFill(n) => Background(n) = [css |-> "transparent"]

\* The first fill of the node is SOLID and has a color with all four
\* channels.
SolidFirst(n) ==
    /\ Has(n, "fills")
    /\ Len(n.fills) >= 1
    /\ Has(n.fills[1], "type")
    /\ n.fills[1].type = "SOLID"
    /\ Has(n.fills[1], "color")
    /\ \A c \in {"r", "g", "b", "a"} : Has(n.fills[1].color, c)

\* The integer nearest to 255 times a channel in [0,1], a half rounded up.
Channel255(c) ==
    R(CHOOSE k \in 0..255 :
          /\ LessEq(R(2 * k - 1), Mul(R(510), c))
          /\ Less(Mul(R(510), c), R(2 * k + 1)))

\* C11: when the first fill is SOLID with color {r,g,b,a}, the background
\* is rgba(round(r*255), round(g*255), round(b*255), a), the alpha as it
\* is; and whatever the first fill is, the fills after it change nothing.
C11_SolidFirstFill ==
    \A n \in NodesOfType("RECTANGLE") :
        /\ SolidFirst(n) =>
               Background(n) =
                   [css |-> "rgba",
                    r |-> Channel255(n.fills[1].color.r),
                    g |-> Channel255(n.fills[1].color.g),
                    b |-> Channel255(n.fills[1].color.b),
                    a |-> n.fills[1].color.a]
        /\ (Has(n, "fills") /\ Len(n.fills) >= 1) =>
               Background(n) = Background([n EXCEPT !.fills = <<n.fills[1]>>])

\* A RECTANGLE child whose first fill is the color (1/2, 1/3, 1/510, 1),
\* drawn with the background rgba(128, 85, 1, 1).
C11_Witness ==
    /\ Len(ui.elements) = 1
    /\ ui.selectedPage.children[1].type = "RECTANGLE"
    /\ SolidFirst(ui.selectedPage.children[1])
    /\ ui.selectedPage.children[1].fills[1].color.r = Rat(1, 2)
    /\ ~ui.elements[1].threw
    /\ ui.elements[1].prims[1].background =
           [css |-> "rgba", r |-> R(128), g |-> R(85), b |-> R(1), a |-> R(1)]

\* The nodes of the selected page that have a style with a font size.
SizedTexts ==
    { n \in NodesOfType("TEXT") :
        Has(n, "style") /\ Has(n.style, "fontSize") }

\* C12 as stated: the font size is 16 and the family sans-serif when the
\* style or the sub-field is absent, and every present font size, zero and
\* negative included, is passed through unchanged.
C12_FontSizePassedThrough ==
    \A n \in NodesOfType("TEXT") :
        /\ resolvedFontSize(n) =
               (IF n \in SizedTexts THEN n.style.fontSize ELSE R(16))
        /\ (~Has(n, "style") \/ ~Has(n.style, "fontFamily")) =>
               FontFamily(n) = "sans-serif"

\* C12, amended: the font size is 16 when the style or its fontSize is
\* absent or the fontSize is 0, and the family is sans-serif when the style
\* or its fontFamily is absent or the fontFamily is the empty string; every
\* other present value, a negative font size included, is passed through
\* unchanged.
C12_ZeroFontSizeDefaults ==
    \A n \in NodesOfType("TEXT") :
        /\ resolvedFontSize(n) =
               (IF n \in SizedTexts /\ n.style.fontSize # R(0)
                THEN n.style.fontSize ELSE R(16))
        /\ FontFamily(n) =
               (IF Has(n, "style") /\ Has(n.style, "fontFamily")
                   /\ n.style.fontFamily # ""
                THEN n.style.fontFamily ELSE "sans-serif")

\* A TEXT child with the font size -4 and an empty font family, drawn at
\* scale 1 with the font size -4 and the family sans-serif.
C12_Witness ==
    /\ Len(ui.elements) = 1
    /\ ui.selectedPage.children[1] \in SizedTexts
    /\ ui.selectedPage.children[1].style.fontSize = R(-4)
    /\ Scale = R(1)
    /\ ui.elements[1].prims[1].fontSize = R(-4)
    /\ ui.elements[1].prims[1].fontFamily = "sans-serif"

\* A step in which a boundary fails: the upstream fetch fails, a message
\* does not parse, the socket reports an error or closes, or the generation
\* request is rejected, answered with a non-success status or with a body
\* that is not JSON.
BoundaryFailure ==
    \/ ServerFetchFailed
    \/ wire # <<>> /\ ~Has(Head(wire), "json") /\ OnMessage
    \/ OnError
    \/ OnClose
    \/ \E o \in Outcomes : o.kind # "ok" /\ GenerateSettled(o)

DocPages ==
    IF figmaData # Null /\ Has(figmaData, "document")
       /\ Has(figmaData.document, "children")
    THEN figmaData.document.children
    ELSE <<>>

\* C14: the page laid out is a direct child of the root of the current
\* document: a page whose id is the selection when the document has one,
\* otherwise the first page; without pages no page is laid out.
C14_RootIsCurrentPage ==
    /\ LaidOut => \E i \in 1..Len(DocPages) : ui.selectedPage = DocPages[i]
    /\ IF \E i \in 1..Len(DocPages) : Str(DocPages[i].id) = selectedPageId
       THEN LaidOut /\ Str(ui.selectedPage.id) = selectedPageId
       ELSE IF Len(DocPages) > 0
            THEN ui.selectedPage = DocPages[1]
            ELSE ~LaidOut

\* The selection "0:1" was made in an earlier document; the current document
\* has no page of that id and its first page is laid out.
C14_Witness ==
    /\ mounted
    /\ selectedPageId = Str("0:1")
    /\ figmaData = Doc(<<PageA("0:2"), PageC("0:3")>>)
    /\ ui.selectedPage = PageA("0:2")

\* The page selected in the current document by the current selection.
FreshPage == selectedPage(pages(figmaData), selectedPageId)

Failed(o) == o.kind # "ok"

\* The generation request succeeded with empty or missing content.
EmptySuccess(o) ==
    o.kind = "ok" /\ (~Has(o, "htmlContent") \/ o.htmlContent = "")

\* C15 as stated: a generation failure leaves a non-empty error string, and
\* a success with empty or missing content leaves no error string.
C15_ErrorIffFailure ==
    [][\A o \in Outcomes :
           GenerateSettled(o) =>
               /\ Failed(o) => (error' # Null /\ error'.str # "")
               /\ EmptySuccess(o) => error' = Null]_vars

\* C15, amended: while the viewer is mounted, a generation failure sets the
\* error string to "Failed to generate HTML: <message>" and the markup to
\* the error paragraph; a success with empty or missing content sets the
\* markup to the "not provided" placeholder and leaves the error string as
\* it was, so an error of the socket shown since the click stays shown.  The
\* two markups differ.  A response that settles after a render error has
\* unmounted the viewer changes neither.
C15_FailureSetsErrorSuccessKeepsIt ==
    [][\A o \in Outcomes :
           GenerateSettled(o) =>
               IF mounted
               THEN /\ Failed(o) =>
                           /\ error' # Null
                           /\ error'.str = "Failed to generate HTML: " \o o.message
                           /\ generatedHtml' = ErrorHtml
                    /\ EmptySuccess(o) =>
                           /\ error' = error
                           /\ generatedHtml' = MissingHtml
                    /\ ErrorHtml # MissingHtml
               ELSE UNCHANGED <<error, generatedHtml>>]_vars

\* A success without content has settled while the error of the socket,
\* raised after the click, is shown.
C15_Witness ==
    /\ mounted
    /\ ~isGenerating
    /\ request = <<>>
    /\ serverMessage = "HTML generated"
    /\ generatedHtml = MissingHtml
    /\ error = Str("WebSocket error. Check if the server is running.")

\* C18: isGenerating is true exactly while a generation request is
\* outstanding, and at most one request is outstanding.
C18_GeneratingIffOutstanding ==
    /\ Len(request) <= 1
    /\ isGenerating <=> request # <<>>

\* The primitive lies inside the viewport.
Inside(p) ==
    /\ LessEq(R(0), p.left)
    /\ LessEq(R(0), p.top)
    /\ LessEq(Add(p.left, p.width), R(targetViewWidth))
    /\ LessEq(Add(p.top, p.height), R(targetViewHeight))

\* No box of the selected page has a negative width or height.
NonNegativeBoxes ==
    \A i \in 1..Len(ui.nodes) :
        /\ LessEq(R(0), BoxOr0(ui.nodes[i], "width"))
        /\ LessEq(R(0), BoxOr0(ui.nodes[i], "height"))

====
